---- MODULE Spec2Model ----
(***************************************************************************)
(* cleanup_empty_csvs.py: remove CSV files that hold only a header.        *)
(*                                                                         *)
(* The model follows one process invocation (main -> cleanup_directory ->  *)
(* is_empty_csv per candidate) and a following invocation on the directory *)
(* the first one left behind.  A file is a finite sequence of symbols; the *)
(* csv reader of line 32 is modelled by the record automaton the two       *)
(* next(reader, None) calls of lines 34 and 36 drive.                      *)
(***************************************************************************)
EXTENDS Integers, Sequences, FiniteSets, TLC

(***************************************************************************)
(* Bounds of the model.                                                    *)
(***************************************************************************)
MaxLen == 4        \* longest file content drawn freely, in symbols
MaxRuns == 2       \* invocations of the tool in a row

(***************************************************************************)
(* File content.  "x" is a run of one or more ordinary characters, short   *)
(* enough for one csv field, "," a comma, "LF" a line feed, "Q" the double *)
(* quote, "BAD" a byte sequence that is not UTF-8, "BIG" a run of ordinary *)
(* characters longer than the csv field limit (the parser raises csv.Error *)
(* on it).                                                                 *)
(***************************************************************************)
Symbols == {"x", ",", "LF", "Q", "BAD", "BIG"}

RECURSIVE SeqsUpTo(_)
SeqsUpTo(n) ==
  IF n = 0 THEN {<<>>}
  ELSE LET S == SeqsUpTo(n - 1)
       IN  S \cup {Append(s, c) : s \in {t \in S : Len(t) = n - 1}, c \in Symbols}

Contents == SeqsUpTo(MaxLen)

(***************************************************************************)
(* Command line: --delimiter values and their resolution (lines 131-136).  *)
(***************************************************************************)
DelimiterArgs == {",", "|", "pipe", "tab", "", "||"}

ResolveDelimiter(arg) ==
  IF arg = "pipe" THEN "|"
  ELSE IF arg = "tab" THEN "TAB"
  ELSE arg

\* variant: a reader that takes any string and goes by its first character
AnyDelimiter(d) == TRUE

\* csv.reader(csvfile, delimiter=delimiter) accepts a 1-character string only
OneCharDelimiter(d) == d \in {",", "|", "TAB"}

(***************************************************************************)
(* The csv reader (default dialect: quotechar '"', doublequote, not        *)
(* strict).  Only the record boundaries and the errors matter to the       *)
(* caller, so the automaton keeps the parser state and drops field values. *)
(***************************************************************************)
StartField(c, d) ==
  IF c = "LF" THEN "EAT_CRNL"
  ELSE IF c = "Q" THEN "IN_QUOTED_FIELD"
  ELSE IF c = d THEN "START_FIELD"
  ELSE IF c = "BIG" THEN "ERR"
  ELSE "IN_FIELD"

ProcessChar(st, c, d) ==
  CASE st = "START_RECORD" -> StartField(c, d)
    [] st = "START_FIELD" -> StartField(c, d)
    [] st = "IN_FIELD" ->
         IF c = "LF" THEN "EAT_CRNL"
         ELSE IF c = d THEN "START_FIELD"
         ELSE IF c = "BIG" THEN "ERR"
         ELSE "IN_FIELD"
    [] st = "IN_QUOTED_FIELD" ->
         IF c = "Q" THEN "QUOTE_IN_QUOTED_FIELD"
         ELSE IF c = "BIG" THEN "ERR"
         ELSE "IN_QUOTED_FIELD"
    [] st = "QUOTE_IN_QUOTED_FIELD" ->
         IF c = "Q" THEN "IN_QUOTED_FIELD"
         ELSE IF c = d THEN "START_FIELD"
         ELSE IF c = "LF" THEN "EAT_CRNL"
         ELSE IF c = "BIG" THEN "ERR"
         ELSE "IN_FIELD"
    [] st = "EAT_CRNL" -> IF c = "LF" THEN "EAT_CRNL" ELSE "ERR"
    [] OTHER -> "ERR"

\* the end-of-line marker the reader feeds after each line
ProcessEOL(st) ==
  CASE st = "IN_QUOTED_FIELD" -> "IN_QUOTED_FIELD"
    [] st = "ERR" -> "ERR"
    [] OTHER -> "START_RECORD"

\* index of the last symbol of the line that starts at index from
RECURSIVE LineEnd(_, _)
LineEnd(content, from) ==
  IF from >= Len(content) THEN Len(content)
  ELSE IF content[from] = "LF" THEN from
  ELSE LineEnd(content, from + 1)

RECURSIVE ParseLine(_, _, _, _, _)
ParseLine(st, content, from, to, d) ==
  IF from > to THEN ProcessEOL(st)
  ELSE IF st = "ERR" THEN "ERR"
  ELSE ParseLine(ProcessChar(st, content[from], d), content, from + 1, to, d)

\* open(..., encoding='utf-8') decodes the file chunk by chunk: reading a
\* line that ends at index to has decoded the file up to the end of the
\* chunk that holds index to.  Where a chunk ends depends on the lengths of
\* the runs "x" and "BIG": chunk is an index at which one may end (a run
\* lies at or before it); without a chunk end from to on, the file is
\* decoded to its end.
Decoded(content, to, chunk) ==
  IF /\ to <= chunk
     /\ chunk <= Len(content)
     /\ \E j \in 1..chunk : content[j] \in {"x", "BIG"}
  THEN chunk
  ELSE Len(content)

DecodeFails(content, to, chunk) ==
  \E k \in 1..Decoded(content, to, chunk) : content[k] = "BAD"

(***************************************************************************)
(* next(reader, None): reads lines from position pos on until a record is  *)
(* complete.  res is "row" (a record, possibly with no field), "eof"       *)
(* (None), "decode" (UnicodeDecodeError) or "csv" (csv.Error).             *)
(***************************************************************************)
RECURSIVE ReaderNext(_, _, _, _, _)
ReaderNext(st, content, pos, d, chunk) ==
  IF pos >= Len(content)
  THEN [res |-> IF st = "IN_QUOTED_FIELD" THEN "row" ELSE "eof", pos |-> pos]
  ELSE LET to == LineEnd(content, pos + 1)
           st2 == ParseLine(st, content, pos + 1, to, d)
       IN  IF DecodeFails(content, to, chunk) THEN [res |-> "decode", pos |-> pos]
           ELSE IF st2 = "ERR" THEN [res |-> "csv", pos |-> pos]
           ELSE IF st2 = "START_RECORD" THEN [res |-> "row", pos |-> to]
           ELSE ReaderNext(st2, content, to, d, chunk)

\* variant: the handler of lines 37-40 answers True, so that a file that
\* cannot be read as CSV counts as empty
is_empty_csv_FailOpen(file, d, chunk) ==
  IF ~file.readable THEN [ret |-> "raise", warn |-> FALSE]
  ELSE IF ~OneCharDelimiter(d) THEN [ret |-> "raise", warn |-> FALSE]
  ELSE LET header == ReaderNext("START_RECORD", file.content, 0, d, chunk)
           second == ReaderNext("START_RECORD", file.content, header.pos, d, chunk)
       IN  IF header.res \in {"decode", "csv"} THEN [ret |-> "true", warn |-> TRUE]
           ELSE IF second.res \in {"decode", "csv"} THEN [ret |-> "true", warn |-> TRUE]
           ELSE IF second.res = "eof" THEN [ret |-> "true", warn |-> FALSE]
           ELSE [ret |-> "false", warn |-> FALSE]

\* variant: the header read of line 34 is missing, the first record is
\* taken for data
is_empty_csv_NoHeaderRead(file, d, chunk) ==
  IF ~file.readable THEN [ret |-> "raise", warn |-> FALSE]
  ELSE IF ~OneCharDelimiter(d) THEN [ret |-> "raise", warn |-> FALSE]
  ELSE LET first == ReaderNext("START_RECORD", file.content, 0, d, chunk)
       IN  IF first.res \in {"decode", "csv"} THEN [ret |-> "false", warn |-> TRUE]
           ELSE IF first.res = "eof" THEN [ret |-> "true", warn |-> FALSE]
           ELSE [ret |-> "false", warn |-> FALSE]

(***************************************************************************)
(* is_empty_csv (lines 15-40) on a file entry.  ret is "true", "false" or  *)
(* "raise" (an exception the function does not catch: OSError from open,   *)
(* TypeError from csv.reader); warn says whether the warning of line 38    *)
(* was written.                                                            *)
(***************************************************************************)
is_empty_csv(file, d, chunk) ==
  IF ~file.readable THEN [ret |-> "raise", warn |-> FALSE]
  ELSE IF ~OneCharDelimiter(d) THEN [ret |-> "raise", warn |-> FALSE]
  ELSE LET header == ReaderNext("START_RECORD", file.content, 0, d, chunk)
           second == ReaderNext("START_RECORD", file.content, header.pos, d, chunk)
       IN  IF header.res \in {"decode", "csv"} THEN [ret |-> "false", warn |-> TRUE]
           ELSE IF second.res \in {"decode", "csv"} THEN [ret |-> "false", warn |-> TRUE]
           ELSE IF second.res = "eof" THEN [ret |-> "true", warn |-> FALSE]
           ELSE [ret |-> "false", warn |-> FALSE]

(***************************************************************************)
(* The directory tree.  A path is (directory below the root, name,         *)
(* suffix); an entry says whether the file exists, what it holds, whether  *)
(* open() succeeds on it and whether os.remove() succeeds on it.           *)
(***************************************************************************)
PathA == [dir |-> "", name |-> "a", suffix |-> "csv"]
PathB == [dir |-> "sub", name |-> "b", suffix |-> "csv"]
PathC == [dir |-> "", name |-> "c", suffix |-> "txt"]
Paths == {PathA, PathB, PathC}
RootPath == [dir |-> "", name |-> "", suffix |-> ""]

File(c, r, w) == [exists |-> TRUE, content |-> c, readable |-> r, removable |-> w]
NoFile == [exists |-> FALSE, content |-> <<>>, readable |-> FALSE, removable |-> FALSE]

HeaderOnly == <<"x", "LF">>
SampleContents ==
  {<<>>, HeaderOnly, <<"x", "LF", "x">>, <<"BAD">>, <<"x", "LF", "LF", "BAD">>, <<"BIG">>}

EntriesA ==
  {NoFile, File(HeaderOnly, FALSE, TRUE), File(HeaderOnly, TRUE, FALSE)}
    \cup {File(c, TRUE, TRUE) : c \in SampleContents}
EntriesB ==
  {NoFile, File(HeaderOnly, TRUE, TRUE), File(<<"x", "LF", "x">>, TRUE, TRUE),
   File(HeaderOnly, FALSE, TRUE), File(HeaderOnly, TRUE, FALSE)}
EntriesC == {NoFile, File(HeaderOnly, TRUE, TRUE)}

Tree(a, b, c) == [p \in Paths |-> IF p = PathA THEN a ELSE IF p = PathB THEN b ELSE c]

VARIABLES
  args,           \* parsed command line: delimiter, dry_run, verbose, recursive
  root,           \* what the directory argument names: "dir", "file", "missing"
  scan_ok,        \* whether scanning the root directory succeeds
  disk,           \* path -> entry
  disk0,          \* the tree as this invocation found it
  run,            \* number of the invocation
  history,        \* finished invocations: exit code and files_deleted
  pc,             \* position of the invocation
  delimiter,      \* main's resolved delimiter
  csv_files,      \* cleanup_directory: the enumerated candidates
  idx,            \* number of candidates the loop has taken
  files_checked,
  files_deleted,
  calls,          \* the calls of is_empty_csv so far: path and outcome
  out,            \* standard output
  err,            \* standard error
  summary,        \* the printed summary block, <<>> until printed
  exitCode        \* process exit status, -1 while running

vars == <<args, root, scan_ok, disk, disk0, run, history, pc, delimiter, csv_files,
          idx, files_checked, files_deleted, calls, out, err, summary, exitCode>>

Msg(k, p) == [kind |-> k, path |-> p]

\* pathlib.Path(directory_path).glob('**/*.csv' if recursive else '*.csv')
Glob(tree, recursive) ==
  {p \in Paths : tree[p].exists /\ p.suffix = "csv" /\ (recursive \/ p.dir = "")}

\* the enumeration order is the file system's
Orders(S) ==
  {s \in [1..Cardinality(S) -> S] : \A a, b \in 1..Cardinality(S) : a # b => s[a] # s[b]}

cur == csv_files[idx]

Fresh ==
  /\ pc = "main"
  /\ delimiter = ""
  /\ csv_files = <<>>
  /\ idx = 0
  /\ files_checked = 0
  /\ files_deleted = 0
  /\ calls = <<>>
  /\ out = {}
  /\ err = {}
  /\ summary = <<>>
  /\ exitCode = -1

\* a tree of sample files under every combination of flags
InitTree ==
  /\ args \in [delimiter : DelimiterArgs, dry_run : BOOLEAN,
               verbose : BOOLEAN, recursive : BOOLEAN]
  /\ root = "dir"
  /\ scan_ok \in BOOLEAN
  /\ disk \in {Tree(a, b, c) : a \in EntriesA, b \in EntriesB, c \in EntriesC}

\* one candidate holding any content up to MaxLen symbols
InitContent ==
  /\ args \in [delimiter : {",", "pipe", "||"}, dry_run : BOOLEAN,
               verbose : {FALSE}, recursive : {FALSE}]
  /\ root = "dir"
  /\ scan_ok = TRUE
  /\ disk \in {Tree(File(c, TRUE, TRUE), NoFile, NoFile) : c \in Contents}

\* the directory argument names no directory
InitNoDirectory ==
  /\ args \in [delimiter : {","}, dry_run : BOOLEAN,
               verbose : {FALSE}, recursive : BOOLEAN]
  /\ root \in {"file", "missing"}
  /\ scan_ok = FALSE
  /\ disk = Tree(NoFile, NoFile, NoFile)

Init ==
  /\ InitTree \/ InitContent \/ InitNoDirectory
  /\ disk0 = disk
  /\ run = 1
  /\ history = <<>>
  /\ Fresh

Finish(code) ==
  /\ exitCode' = code
  /\ history' = Append(history, [code |-> code, deleted |-> files_deleted])
  /\ pc' = "done"

(***************************************************************************)
(* main, lines 128-153: resolve the delimiter, validate the directory.     *)
(***************************************************************************)
Main ==
  /\ pc = "main"
  /\ delimiter' = ResolveDelimiter(args.delimiter)
  /\ IF root = "missing"
     THEN /\ err' = err \cup {Msg("does not exist", RootPath)}
          /\ Finish(1)
          /\ out' = out
     ELSE IF root # "dir"
     THEN /\ err' = err \cup {Msg("is not a directory", RootPath)}
          /\ Finish(1)
          /\ out' = out
     ELSE /\ out' = out \cup {Msg("Processing directory", RootPath)}
          /\ pc' = "cleanup"
          /\ UNCHANGED <<err, exitCode, history>>
  /\ UNCHANGED <<args, root, scan_ok, disk, disk0, run, csv_files, idx,
                 files_checked, files_deleted, calls, summary>>

(***************************************************************************)
(* cleanup_directory, lines 57-70: the directory check, the counters and   *)
(* the enumeration.  The ValueError of line 58 reaches main's handler of   *)
(* lines 172-174.                                                          *)
(***************************************************************************)
Enumerate ==
  /\ pc = "cleanup"
  /\ scan_ok
  /\ IF root # "dir"
     THEN /\ err' = err \cup {Msg("Error", RootPath)}
          /\ Finish(1)
          /\ UNCHANGED <<csv_files, out>>
     ELSE /\ \E order \in Orders(Glob(disk, args.recursive)) : csv_files' = order
          /\ out' = IF args.verbose THEN out \cup {Msg("Found", RootPath)} ELSE out
          /\ pc' = "loop"
          /\ UNCHANGED <<err, exitCode, history>>
  /\ files_checked' = 0
  /\ files_deleted' = 0
  /\ idx' = 0
  /\ UNCHANGED <<args, root, scan_ok, disk, disk0, run, delimiter, calls, summary>>

\* variant: the scan error is not caught in cleanup_directory and reaches
\* main's handler of lines 172-174
EnumerateFailsPropagating ==
  /\ pc = "cleanup"
  /\ ~scan_ok
  /\ root = "dir"
  /\ files_checked' = 0
  /\ files_deleted' = 0
  /\ err' = err \cup {Msg("Error scanning directory", RootPath)}
  /\ Finish(1)
  /\ UNCHANGED <<args, root, scan_ok, disk, disk0, run, delimiter, csv_files,
                 idx, calls, out, summary>>

\* lines 66 and 91-93: the scan raises; the handler reports it and returns
\* the counts
EnumerateFails ==
  /\ pc = "cleanup"
  /\ ~scan_ok
  /\ root = "dir"
  /\ files_checked' = 0
  /\ files_deleted' = 0
  /\ err' = err \cup {Msg("Error scanning directory", RootPath)}
  /\ pc' = "summary"
  /\ UNCHANGED <<args, root, scan_ok, disk, disk0, run, history, delimiter, csv_files,
                 idx, calls, out, summary, exitCode>>

\* variant: the candidate is taken without being counted
NextCandidateUncounted ==
  /\ pc = "loop"
  /\ idx < Len(csv_files)
  /\ idx' = idx + 1
  /\ pc' = "classify"
  /\ UNCHANGED <<args, root, scan_ok, disk, disk0, run, history, delimiter, csv_files,
                 files_checked, files_deleted, calls, out, err, summary, exitCode>>

\* lines 73-74: take the next candidate and count it
NextCandidate ==
  /\ pc = "loop"
  /\ idx < Len(csv_files)
  /\ idx' = idx + 1
  /\ files_checked' = files_checked + 1
  /\ pc' = "classify"
  /\ UNCHANGED <<args, root, scan_ok, disk, disk0, run, history, delimiter, csv_files,
                 files_deleted, calls, out, err, summary, exitCode>>

\* variant: no per-file handler; what the call raises ends the loop in the
\* handler of lines 91-93
ClassifyAborting ==
  /\ pc = "classify"
  /\ \E chunk \in 0..MaxLen :
       LET r == is_empty_csv(disk[cur], delimiter, chunk)
       IN  /\ calls' = Append(calls, [path |-> cur, ret |-> r.ret])
           /\ err' = err \cup (IF r.warn THEN {Msg("Warning: Could not process", cur)} ELSE {})
                         \cup (IF r.ret = "raise"
                               THEN {Msg("Error scanning directory", RootPath)} ELSE {})
           /\ out' = IF r.ret = "false" /\ args.verbose
                     THEN out \cup {Msg("Keeping", cur)} ELSE out
           /\ pc' = IF r.ret = "true" THEN "empty"
                    ELSE IF r.ret = "raise" THEN "summary" ELSE "loop"
  /\ UNCHANGED <<args, root, scan_ok, disk, disk0, run, history, delimiter, csv_files,
                 idx, files_checked, files_deleted, summary, exitCode>>

\* lines 76 and 84-87: the call of is_empty_csv with its warning, the
\* "Keeping" notice, and the per-file handler for what the call raises
Classify ==
  /\ pc = "classify"
  /\ \E chunk \in 0..MaxLen :
       LET r == is_empty_csv(disk[cur], delimiter, chunk)
       IN  /\ calls' = Append(calls, [path |-> cur, ret |-> r.ret])
           /\ err' = err \cup (IF r.warn THEN {Msg("Warning: Could not process", cur)} ELSE {})
                         \cup (IF r.ret = "raise" THEN {Msg("Error processing", cur)} ELSE {})
           /\ out' = IF r.ret = "false" /\ args.verbose
                     THEN out \cup {Msg("Keeping", cur)} ELSE out
           /\ pc' = IF r.ret = "true" THEN "empty" ELSE "loop"
  /\ UNCHANGED <<args, root, scan_ok, disk, disk0, run, history, delimiter, csv_files,
                 idx, files_checked, files_deleted, summary, exitCode>>

\* variant: the dry_run test of line 77 is missing, the file is removed
WouldDeleteRemoving ==
  /\ pc = "empty"
  /\ args.dry_run
  /\ disk' = [disk EXCEPT ![cur] = NoFile]
  /\ out' = out \cup {Msg("Would delete", cur)}
  /\ pc' = "loop"
  /\ UNCHANGED <<args, root, scan_ok, disk0, run, history, delimiter, csv_files,
                 idx, files_checked, files_deleted, calls, err, summary, exitCode>>

\* variant: the dry run counts what it would delete
WouldDeleteCounting ==
  /\ pc = "empty"
  /\ args.dry_run
  /\ out' = out \cup {Msg("Would delete", cur)}
  /\ files_deleted' = files_deleted + 1
  /\ pc' = "loop"
  /\ UNCHANGED <<args, root, scan_ok, disk, disk0, run, history, delimiter, csv_files,
                 idx, files_checked, calls, err, summary, exitCode>>

\* lines 77-78
WouldDelete ==
  /\ pc = "empty"
  /\ args.dry_run
  /\ out' = out \cup {Msg("Would delete", cur)}
  /\ pc' = "loop"
  /\ UNCHANGED <<args, root, scan_ok, disk, disk0, run, history, delimiter, csv_files,
                 idx, files_checked, files_deleted, calls, err, summary,
                 exitCode>>

\* variant: the file is counted as deleted and left on disk
RemoveCountingOnly ==
  /\ pc = "empty"
  /\ ~args.dry_run
  /\ disk[cur].removable
  /\ files_deleted' = files_deleted + 1
  /\ out' = IF args.verbose THEN out \cup {Msg("Deleted", cur)} ELSE out
  /\ pc' = "loop"
  /\ UNCHANGED <<args, root, scan_ok, disk, disk0, run, history, delimiter, csv_files,
                 idx, files_checked, calls, err, summary, exitCode>>

\* lines 80-83: os.remove succeeds
Remove ==
  /\ pc = "empty"
  /\ ~args.dry_run
  /\ disk[cur].removable
  /\ disk' = [disk EXCEPT ![cur] = NoFile]
  /\ files_deleted' = files_deleted + 1
  /\ out' = IF args.verbose THEN out \cup {Msg("Deleted", cur)} ELSE out
  /\ pc' = "loop"
  /\ UNCHANGED <<args, root, scan_ok, disk0, run, history, delimiter, csv_files,
                 idx, files_checked, calls, err, summary, exitCode>>

\* variant: the counter is incremented before os.remove is called
RemoveFailsCounting ==
  /\ pc = "empty"
  /\ ~args.dry_run
  /\ ~disk[cur].removable
  /\ files_deleted' = files_deleted + 1
  /\ err' = err \cup {Msg("Error processing", cur)}
  /\ pc' = "loop"
  /\ UNCHANGED <<args, root, scan_ok, disk, disk0, run, history, delimiter, csv_files,
                 idx, files_checked, calls, out, summary, exitCode>>

\* lines 80 and 86-87: os.remove raises, the per-file handler reports it
RemoveFails ==
  /\ pc = "empty"
  /\ ~args.dry_run
  /\ ~disk[cur].removable
  /\ err' = err \cup {Msg("Error processing", cur)}
  /\ pc' = "loop"
  /\ UNCHANGED <<args, root, scan_ok, disk, disk0, run, history, delimiter, csv_files,
                 idx, files_checked, files_deleted, calls, out, summary,
                 exitCode>>

\* line 89
Return ==
  /\ pc = "loop"
  /\ idx = Len(csv_files)
  /\ pc' = "summary"
  /\ UNCHANGED <<args, root, scan_ok, disk, disk0, run, history, delimiter, csv_files,
                 idx, files_checked, files_deleted, calls, out, err,
                 summary, exitCode>>

\* lines 163-167
Summary ==
  /\ pc = "summary"
  /\ summary' = <<[checked |-> files_checked, deleted |-> files_deleted,
                   label |-> IF args.dry_run THEN "would be deleted" ELSE "deleted"]>>
  /\ Finish(0)
  /\ UNCHANGED <<args, root, scan_ok, disk, disk0, run, delimiter, csv_files,
                 idx, files_checked, files_deleted, calls, out, err>>

\* lines 169-171: KeyboardInterrupt anywhere inside main's try block; no
\* handler below main catches it
Interrupt ==
  /\ pc \in {"cleanup", "loop", "classify", "empty", "summary"}
  /\ err' = err \cup {Msg("Operation cancelled by user", RootPath)}
  /\ Finish(130)
  /\ UNCHANGED <<args, root, scan_ok, disk, disk0, run, delimiter, csv_files,
                 idx, files_checked, files_deleted, calls, out, summary>>

\* lines 177-178: the tool is started again with the same arguments on the
\* tree the previous invocation left
Rerun ==
  /\ pc = "done"
  /\ run < MaxRuns
  /\ run' = run + 1
  /\ disk0' = disk
  /\ pc' = "main"
  /\ delimiter' = ""
  /\ csv_files' = <<>>
  /\ idx' = 0
  /\ files_checked' = 0
  /\ files_deleted' = 0
  /\ calls' = <<>>
  /\ out' = {}
  /\ err' = {}
  /\ summary' = <<>>
  /\ exitCode' = -1
  /\ UNCHANGED <<args, root, scan_ok, disk, history>>

Next ==
  \/ Main
  \/ Enumerate
  \/ EnumerateFails
  \/ NextCandidate
  \/ Classify
  \/ WouldDelete
  \/ Remove
  \/ RemoveFails
  \/ Return
  \/ Summary
  \/ Interrupt
  \/ Rerun

Spec == Init /\ [][Next]_vars

TypeOK ==
  /\ pc \in {"main", "cleanup", "loop", "classify", "empty", "summary", "done"}
  /\ idx \in 0..Len(csv_files)
  /\ run \in 1..MaxRuns
  /\ exitCode \in {-1, 0, 1, 130}

(***************************************************************************)
(* Vocabulary of the properties.                                           *)
(***************************************************************************)
\* what is_empty_csv did on path p in this invocation
Rets(p) == {calls[k].ret : k \in {j \in 1..Len(calls) : calls[j].path = p}}

\* the files this invocation found and that are no longer there
Gone == {p \in Paths : disk0[p].exists /\ ~disk[p].exists}

Candidates == Glob(disk0, args.recursive)
Cancelled == Msg("Operation cancelled by user", RootPath) \in err
ScanFailed == Msg("Error scanning directory", RootPath) \in err
Warned(p) == Msg("Warning: Could not process", p) \in err
Reported(p) == Msg("Error processing", p) \in err

\* list(csv.reader(f)): every record of a file read to its end
RECURSIVE ReadAll(_, _, _, _)
ReadAll(content, pos, d, n) ==
  LET r == ReaderNext("START_RECORD", content, pos, d, Len(content))
  IN  IF r.res = "row" THEN ReadAll(content, r.pos, d, n + 1)
      ELSE [res |-> r.res, n |-> n]

Undecodable(c) == \E k \in 1..Len(c) : c[k] = "BAD"
Untokenizable(c, d) ==
  OneCharDelimiter(d) /\ ~Undecodable(c) /\ ReadAll(c, 0, d, 0).res = "csv"
BadFile(f, d) == f.exists /\ (Undecodable(f.content) \/ Untokenizable(f.content, d))
CleanFile(f, d) ==
  /\ f.exists /\ f.readable /\ OneCharDelimiter(d)
  /\ ~Undecodable(f.content) /\ ReadAll(f.content, 0, d, 0).res = "eof"

\* the part of a file before its first undecodable or oversized spot
RECURSIVE GoodPrefix(_)
GoodPrefix(c) ==
  IF c = <<>> \/ Head(c) \in {"BAD", "BIG"} THEN <<>>
  ELSE <<Head(c)>> \o GoodPrefix(Tail(c))

\* a step of the model that is the call of is_empty_csv on cur
ClassifyStep == pc = "classify" /\ pc' \in {"loop", "empty"}
LastRet == calls'[Len(calls')].ret

(***************************************************************************)
(* C1: a file changes on disk only by being removed, and it is removed     *)
(* only in a run without dry_run, after is_empty_csv returned True for it  *)
(* in this run; every other file of the tree stays as it is.               *)
(***************************************************************************)
C1_OnlyEmptyRemoved ==
  [][\A p \in Paths :
       disk'[p] # disk[p] =>
         /\ run' = run
         /\ ~args.dry_run
         /\ disk'[p] = NoFile
         /\ p \in Candidates
         /\ "true" \in Rets(p)]_vars

C1_Witness ==
  /\ pc = "done" /\ exitCode = 0
  /\ Gone # {}
  /\ disk[PathC].exists
  /\ \E p \in Candidates : "false" \in Rets(p) /\ disk[p].exists

(***************************************************************************)
(* C2: with dry_run the files on disk stay exactly as the run found them,  *)
(* files_deleted stays 0 and the printed summary reports 0.                *)
(***************************************************************************)
C2_DryRunNeverDeletes ==
  args.dry_run =>
    /\ disk = disk0
    /\ files_deleted = 0
    /\ summary # <<>> => summary[1].deleted = 0

C2_Witness ==
  /\ args.dry_run /\ pc = "done" /\ summary # <<>>
  /\ \E p \in Candidates : Msg("Would delete", p) \in out /\ disk[p].exists

C4_EmptyIffNoSecondRecord ==
  [][ClassifyStep =>
       /\ disk' = disk
       /\ CleanFile(disk[cur], delimiter) =>
            LET c == disk[cur].content
            IN  /\ LastRet \in {"true", "false"}
                /\ LastRet = "true" <=> ReadAll(c, 0, delimiter, 0).n <= 1
                /\ c \in {<<>>, <<"x">>, HeaderOnly} => LastRet = "true"
                /\ c \in {<<"x", "LF", ",">>, <<"x", "LF", "LF">>} => LastRet = "false"]_vars

C4_Witness ==
  /\ pc = "loop" /\ idx = 1 /\ delimiter = ","
  /\ disk[cur].content = <<"x", "LF", ",">>
  /\ Rets(cur) = {"false"}
  /\ ~Warned(cur)

(***************************************************************************)
(* C5: once an invocation ran to its end, a following invocation without   *)
(* dry_run on the tree it left removes nothing and counts 0 deletions.     *)
(***************************************************************************)
C5_Idempotent ==
  (~args.dry_run /\ \E k \in 1..(run - 1) : history[k].code # 130) =>
    (files_deleted = 0 /\ disk = disk0)

C5_Witness ==
  /\ run = 2 /\ pc = "done" /\ exitCode = 0 /\ ~args.dry_run
  /\ history[1].code = 0 /\ history[1].deleted >= 1
  /\ files_checked >= 1

(***************************************************************************)
(* C6 as stated: per-candidate failures leave the exit code 0, while a     *)
(* missing or non-directory root and a failed enumeration make it a        *)
(* failure status.                                                         *)
(***************************************************************************)
C6_Original ==
  pc = "done" =>
    /\ root # "dir" => exitCode # 0
    /\ ScanFailed => exitCode # 0
    /\ (root = "dir" /\ ~ScanFailed /\ ~Cancelled) => exitCode = 0

(***************************************************************************)
(* C6 amended: the exit code is 1 exactly when the root is missing or not  *)
(* a directory; otherwise an uninterrupted run exits 0, whatever failed on *)
(* single candidates and also when the enumeration failed (that failure is *)
(* caught in cleanup_directory, reported, and the summary is printed).     *)
(***************************************************************************)
C6_ExitStatus ==
  pc = "done" =>
    /\ exitCode = 1 <=> root # "dir"
    /\ (root = "dir" /\ ~Cancelled) => (exitCode = 0 /\ summary # <<>>)
    /\ ScanFailed => (exitCode \in {0, 130} /\ files_checked = 0)

C6_Witness ==
  pc = "done" /\ ScanFailed /\ exitCode = 0 /\ summary # <<>>

(***************************************************************************)
(* C7: when cleanup_directory returns after a successful enumeration,      *)
(* every enumerated candidate was counted and passed to is_empty_csv       *)
(* exactly once, and each call that raised and each removal that failed    *)
(* was reported for its path.                                              *)
(***************************************************************************)
C7_FailureIsolation ==
  (pc = "summary" /\ scan_ok) =>
    /\ files_checked = Len(csv_files)
    /\ {csv_files[k] : k \in 1..Len(csv_files)} = Candidates
    /\ \A p \in Candidates :
         /\ Cardinality({k \in 1..Len(calls) : calls[k].path = p}) = 1
         /\ "raise" \in Rets(p) => Reported(p)
         /\ ("true" \in Rets(p) /\ ~args.dry_run /\ disk[p].exists) => Reported(p)

C7_Witness ==
  /\ pc = "summary" /\ Len(calls) = 2
  /\ calls[1].ret = "raise" /\ Reported(calls[1].path)
  /\ calls[2].ret = "true"
  /\ files_checked = 2

(***************************************************************************)
(* C8: without dry_run, files_deleted is the number of files the run has   *)
(* removed so far; a candidate whose removal failed is reported and not    *)
(* counted.                                                                *)
(***************************************************************************)
C8_DeletedCountsRemovals ==
  ~args.dry_run =>
    /\ files_deleted = Cardinality(Gone)
    /\ \A p \in Candidates :
         ("true" \in Rets(p) /\ disk[p].exists /\ pc # "empty" /\ ~Cancelled) => Reported(p)

C8_Witness ==
  /\ pc = "done" /\ ~args.dry_run /\ files_deleted = 1 /\ files_checked = 2
  /\ \E p \in Candidates : "true" \in Rets(p) /\ disk[p].exists /\ Reported(p)

(***************************************************************************)
(* C9: files_deleted <= files_checked after every step, and within an      *)
(* invocation each counter stays or grows by one, never beyond the number  *)
(* of candidates the loop has taken.                                       *)
(***************************************************************************)
C9_Counters ==
  [][/\ files_deleted' <= files_checked'
     /\ files_checked' <= idx'
     /\ run' = run =>
          /\ files_checked' \in {files_checked, files_checked + 1}
          /\ files_deleted' \in {files_deleted, files_deleted + 1}]_vars

C9_Witness ==
  /\ files_checked = 2 /\ files_deleted = 1
  /\ \E p \in Candidates : Reported(p)

(***************************************************************************)
(* C10: with a delimiter that is not one character every call of           *)
(* is_empty_csv raises and is reported by the per-file handler; every      *)
(* candidate is counted as checked, nothing is removed, files_deleted is 0 *)
(* and the run exits 0.                                                    *)
(***************************************************************************)
C10_BadDelimiter ==
  (root = "dir" /\ args.delimiter \in {"", "||"}) =>
    /\ disk = disk0
    /\ files_deleted = 0
    /\ \A k \in 1..Len(calls) : calls[k].ret = "raise"
    /\ \A p \in Paths : ~Warned(p)
    /\ (pc = "done" /\ ~Cancelled) =>
         /\ exitCode = 0
         /\ ~ScanFailed =>
              /\ files_checked = Cardinality(Candidates)
              /\ \A p \in Candidates : Reported(p)

C10_Witness ==
  /\ pc = "done" /\ exitCode = 0 /\ delimiter = "||" /\ ~args.dry_run
  /\ files_checked = 2
  /\ \E p \in Candidates : disk[p].content = HeaderOnly /\ disk[p].readable

====
